---- MODULE Spec2Model ----
(***************************************************************************)
(* Model of the HVAC counter logger (src/main.py, src/hardware_rp2.py):    *)
(* the change detector, the RTC wrapper and its sync from HTTP Date        *)
(* headers, and the reporting loop with its supervisor.                    *)
(*                                                                         *)
(* Conventions.  A Python value that may be None is a sequence of length   *)
(* 0 (None) or 1 (the value).  A function that may raise returns one of    *)
(* the strings "True", "False" or the name of the exception.  Temperatures *)
(* are integers in sixteenths of a degree C, the resolution of the         *)
(* DS18x20 probes.  The hardware clock is a count of seconds since         *)
(* EpochYear-01-01T00:00:00; the calendar operators convert between that   *)
(* count and the field tuples the code handles.                            *)
(***************************************************************************)
EXTENDS Integers, Sequences, FiniteSets, TLC

VARIABLES
    pc,                      \* position of the program: setup, get, sample, eval, post, sleep, failed
    rtc,                     \* machine.RTC: seconds since the epoch
    rtc_written,             \* last tuple handed to machine.RTC.datetime(...), None before
    temp_sensors,            \* HvacReader._temp_sensors: names of the probes found at setup
    last_sent_state,         \* async_run local
    last_post_time,          \* async_run local
    last_post_time_matches,  \* async_run local
    state,                   \* async_run local: the sample of this iteration
    pydt_now,                \* async_run local: the clock reading of this iteration
    reportable,              \* value of the condition at main.py:325 in this iteration ("" before it)
    compared,                \* last_sent_state and last_post_time as that condition read them
    posted,                  \* requests POSTed in this run, in order
    answered,                \* number of POSTs of this run answered 200 or 201
    err,                     \* exception that ended the run ("" while running)
    supervisor,              \* what the __main__ exception handler did, in order
    iter,                    \* iterations of the loop started in this run
    run,                     \* restarts so far
    hist,                    \* what this run has seen: responses, clock writes, acknowledged snapshot
    det,                     \* detector harness: inputs and result
    clk,                     \* clock harness: inputs and result
    iso                      \* format harness: two clock readings and their formatted ids

vars == <<pc, rtc, rtc_written, temp_sensors, last_sent_state, last_post_time,
          last_post_time_matches, state, pydt_now, reportable, compared, posted,
          answered, err, supervisor, iter, run, hist, det, clk, iso>>

loopvars == <<pc, rtc, rtc_written, temp_sensors, last_sent_state, last_post_time,
              last_post_time_matches, state, pydt_now, reportable, compared, posted,
              answered, err, supervisor, iter, run, hist>>

-----------------------------------------------------------------------------
\* Bounds of the model

MaxIter == 2     \* loop iterations per run
MaxRuns == 1     \* restarts by the supervisor

-----------------------------------------------------------------------------
\* Python helpers

None == <<>>
Some(x) == <<x>>
Abs(x) == IF x < 0 THEN -x ELSE x

-----------------------------------------------------------------------------
\* Calendar: time.mktime / the RTC's own field arithmetic

EpochYear == 2023
SecPerDay == 86400

IsLeap(y) == (y % 4 = 0 /\ y % 100 # 0) \/ (y % 400 = 0)
DaysInYear(y) == IF IsLeap(y) THEN 366 ELSE 365
DaysInMonth(y, m) ==
    IF m = 2 THEN (IF IsLeap(y) THEN 29 ELSE 28)
    ELSE IF m \in {4, 6, 9, 11} THEN 30 ELSE 31

RECURSIVE DaysBeforeYear(_)
DaysBeforeYear(y) ==
    IF y <= EpochYear THEN 0 ELSE DaysBeforeYear(y - 1) + DaysInYear(y - 1)

RECURSIVE DaysBeforeMonth(_, _)
DaysBeforeMonth(y, m) ==
    IF m <= 1 THEN 0 ELSE DaysBeforeMonth(y, m - 1) + DaysInMonth(y, m - 1)

\* time.mktime(t): only the first six fields of the tuple are read
mktime(t) ==
    (DaysBeforeYear(t[1]) + DaysBeforeMonth(t[1], t[2]) + (t[3] - 1)) * SecPerDay
    + t[4] * 3600 + t[5] * 60 + t[6]

RECURSIVE YearOfDays(_, _)
YearOfDays(days, y) ==
    IF days < DaysInYear(y) THEN <<y, days>>
    ELSE YearOfDays(days - DaysInYear(y), y + 1)

RECURSIVE MonthOfDays(_, _, _)
MonthOfDays(y, days, m) ==
    IF days < DaysInMonth(y, m) THEN <<m, days + 1>>
    ELSE MonthOfDays(y, days - DaysInMonth(y, m), m + 1)

\* day of the week, Monday = 0; EpochYear-01-01 (2023-01-01) was a Sunday
Weekday(days) == (days + 6) % 7

\* machine.RTC.datetime(): (year, month, day, weekday, hour, minute, second, subsecond)
RtcRead(secs) ==
    LET days == secs \div SecPerDay
        rem  == secs % SecPerDay
        yd   == YearOfDays(days, EpochYear)
        md   == MonthOfDays(yd[1], yd[2], 1)
    IN  <<yd[1], md[1], md[2], Weekday(days),
          rem \div 3600, (rem % 3600) \div 60, rem % 60, 0>>

\* machine.RTC.datetime(t): the RP2040 port takes year, month, day, hour, minute
\* and second from the tuple and computes the weekday itself
RtcWrite(t) == mktime(<<t[1], t[2], t[3], t[5], t[6], t[7]>>)

-----------------------------------------------------------------------------
\* MyRTC (src/hardware_rp2.py)

MonNames == <<"Jan", "Feb", "Mar", "Apr", "May", "Jun",
              "Jul", "Aug", "Sep", "Oct", "Nov", "Dec">>
DowNames == <<"Mon", "Tue", "Wed", "Thu", "Fri", "Sat", "Sun">>

\* MyRTC.MON
MON == [n \in {MonNames[i] : i \in 1..12} |->
          CHOOSE i \in 1..12 : MonNames[i] = n]

pydttuple_from_upyrp2040tuple(u) ==
    <<u[1], u[2], u[3], u[5], u[6], u[7], 0, "GMT", 0>>

upyrp2040tuple_from_pydttuple(p) ==
    <<p[1], p[2], p[3], p[8], p[4], p[5], p[6], 0>>

\* MyRTC.now
now(secs) == pydttuple_from_upyrp2040tuple(RtcRead(secs))

\* was_seconds_ago with > for >=
was_seconds_ago_Strict(newer, older, seconds) ==
    IF older = None THEN "TypeError"
    ELSE IF mktime(newer) - mktime(older[1]) > seconds THEN "True" ELSE "False"

\* MyRTC.was_seconds_ago; older is a possibly-None value
was_seconds_ago(newer, older, seconds) ==
    IF older = None THEN "TypeError"
    ELSE IF mktime(newer) - mktime(older[1]) >= seconds THEN "True" ELSE "False"

\* MyRTC.pydt_tuple_as_iso: time.strftime("%Y-%b-%dT%H:%M:%S", t), kept as its fields
pydt_tuple_as_iso(t) == <<t[1], MonNames[t[2]], t[3], t[4], t[5], t[6]>>

\* the characters of the month abbreviations that %b produces, as code points
MonChars ==
    [Jan |-> <<74, 97, 110>>, Feb |-> <<70, 101, 98>>, Mar |-> <<77, 97, 114>>,
     Apr |-> <<65, 112, 114>>, May |-> <<77, 97, 121>>, Jun |-> <<74, 117, 110>>,
     Jul |-> <<74, 117, 108>>, Aug |-> <<65, 117, 103>>, Sep |-> <<83, 101, 112>>,
     Oct |-> <<79, 99, 116>>, Nov |-> <<78, 111, 118>>, Dec |-> <<68, 101, 99>>]

\* a number as decimal digits (code points), zero-padded to two or four places
Digit(n) == 48 + n
Digits2(n) == <<Digit(n \div 10), Digit(n % 10)>>
Digits4(n) == Digits2(n \div 100) \o Digits2(n % 100)

\* the string time.strftime("%Y-%b-%dT%H:%M:%S", t) returns, as its code points,
\* from the fields pydt_tuple_as_iso keeps
iso_string(f) ==
    Digits4(f[1]) \o <<45>> \o MonChars[f[2]] \o <<45>> \o Digits2(f[3]) \o <<84>>
    \o Digits2(f[4]) \o <<58>> \o Digits2(f[5]) \o <<58>> \o Digits2(f[6])

\* An HTTP response's Date header as the regular expression _COUCHDB_DATE_RE sees
\* it: absent (headers.get gives None), not matching, or matching with groups
\* g(1)..g(8) = day name, day, month name, year, hour, minute, second, zone.
HttpDate(secs) ==
    LET u == RtcRead(secs)
    IN  [present |-> TRUE, match |-> TRUE,
         g |-> <<DowNames[u[4] + 1], u[3], MonNames[u[2]], u[1], u[5], u[6], u[7], "GMT">>]

NoDate == [present |-> FALSE, match |-> FALSE, g |-> HttpDate(0).g]
MalformedDate == [present |-> TRUE, match |-> FALSE, g |-> HttpDate(0).g]
UnknownMonthDate(secs) ==
    [HttpDate(secs) EXCEPT !.g = [HttpDate(secs).g EXCEPT ![3] = "Xyz"]]

PlausibleYear == 2024
ResyncTolerance == 2

\* the condition of set_from_http_date under which the hardware clock is written
should_resync(pydt_tuple_now, pydt_tuple_parsed) ==
    \/ pydt_tuple_now[1] < PlausibleYear
    \/ Abs(pydt_tuple_parsed[6] - pydt_tuple_now[6]) > ResyncTolerance

\* set_from_http_date taking an unknown month abbreviation for January
set_from_http_date_DefaultMonth(secs, http_date) ==
    IF ~http_date.present
    THEN [err |-> "TypeError", rtc |-> secs, written |-> None]
    ELSE IF ~http_date.match
    THEN [err |-> "RuntimeError", rtc |-> secs, written |-> None]
    ELSE LET g == http_date.g
             month == IF g[3] \in DOMAIN MON THEN MON[g[3]] ELSE 1
             pydt_tuple_parsed == <<g[4], month, g[2], g[5], g[6], g[7], 0, g[8], 0>>
             pydt_tuple_now == pydttuple_from_upyrp2040tuple(RtcRead(secs))
             u == upyrp2040tuple_from_pydttuple(pydt_tuple_parsed)
         IN  IF should_resync(pydt_tuple_now, pydt_tuple_parsed)
             THEN [err |-> "", rtc |-> RtcWrite(u), written |-> Some(u)]
             ELSE [err |-> "", rtc |-> secs, written |-> None]

\* MyRTC.set_from_http_date on a clock holding secs: the exception raised ("" for
\* none), the clock afterwards and the tuple written to it (None when not written)
set_from_http_date(secs, http_date) ==
    IF ~http_date.present
    THEN [err |-> "TypeError", rtc |-> secs, written |-> None]
    ELSE IF ~http_date.match
    THEN [err |-> "RuntimeError", rtc |-> secs, written |-> None]
    ELSE IF http_date.g[3] \notin DOMAIN MON
    THEN [err |-> "KeyError", rtc |-> secs, written |-> None]
    ELSE LET g == http_date.g
             pydt_tuple_parsed ==
                 <<g[4], MON[g[3]], g[2], g[5], g[6], g[7], 0, g[8], 0>>
             pydt_tuple_now == pydttuple_from_upyrp2040tuple(RtcRead(secs))
             u == upyrp2040tuple_from_pydttuple(pydt_tuple_parsed)
         IN  IF should_resync(pydt_tuple_now, pydt_tuple_parsed)
             THEN [err |-> "", rtc |-> RtcWrite(u), written |-> Some(u)]
             ELSE [err |-> "", rtc |-> secs, written |-> None]

-----------------------------------------------------------------------------
\* HvacState (src/main.py)

PerDegree == 16
AmbientThreshold == 2
ProbeThreshold == 1

\* HvacState(fakeDigitals, fakeTemps) and the setters: five possibly-None fields
HvacState(digitals, ambient, outdoor, discharge, return) ==
    [digitals |-> digitals, ambientTempC |-> ambient, outdoorTempC |-> outdoor,
     dischargeTempC |-> discharge, returnTempC |-> return]

\* HvacState._get_digitals_bit_truth
get_digitals_bit_truth(self, bit) == (self.digitals[1] \div (2 ^ bit)) % 2 # 0

\* DIG_HEAT .. DIG_ZONE4
FlagBits == [heat |-> 0, cool |-> 1, fan |-> 2, purge |-> 3, emergency |-> 4,
             zone1 |-> 5, zone2 |-> 6, zone3 |-> 7, zone4 |-> 8]

\* HvacState.as_dict: the digitals property raises on None and the handler then
\* starts from {}; the ambientTempC getter reads self._ambientTemp, which no
\* code sets, so its AttributeError is swallowed and the key is never added
as_dict(self) ==
    LET flags == IF self.digitals = None THEN <<>>
                 ELSE ("digitals" :> self.digitals[1])
                      @@ [n \in DOMAIN FlagBits |-> get_digitals_bit_truth(self, FlagBits[n])]
        temp(f) == IF self[f] = None THEN <<>> ELSE (f :> self[f][1])
    IN  flags @@ temp("outdoorTempC") @@ temp("dischargeTempC") @@ temp("returnTempC")

\* the exception as_dict lets out ("" for none): every property read of
\* main.py:71-102 sits inside a try whose handler goes on, so there is none
as_dict_raises(self) == ""

\* a temperature line with >= for >
TempDiffers_AtLeast(selfT, otherT, threshold) ==
    IF otherT = None THEN "False"
    ELSE IF selfT = None THEN "TypeError"
    ELSE IF Abs(selfT[1] - otherT[1]) >= threshold * PerDegree THEN "True"
    ELSE "False"

\* one line of difference_is_reportable:
\*   other._x is not None and abs(self._x - other._x) > threshold
\* (None - number raises TypeError)
TempDiffers(selfT, otherT, threshold) ==
    IF otherT = None THEN "False"
    ELSE IF selfT = None THEN "TypeError"
    ELSE IF Abs(selfT[1] - otherT[1]) > threshold * PerDegree THEN "True"
    ELSE "False"

\* the four temperature lines of difference_is_reportable (main.py:114-121);
\* o is the other state, known not to be None
ambient_differs(self, o) ==
    TempDiffers(self.ambientTempC, o.ambientTempC, AmbientThreshold)
outdoor_differs(self, o) ==
    TempDiffers(self.outdoorTempC, o.outdoorTempC, ProbeThreshold)
discharge_differs(self, o) ==
    TempDiffers(self.dischargeTempC, o.dischargeTempC, ProbeThreshold)
return_differs(self, o) ==
    TempDiffers(self.returnTempC, o.returnTempC, ProbeThreshold)

\* difference_is_reportable without `if other is None: return True`: the fields
\* of a missing state compare as unset
difference_is_reportable_NoColdStart(self, other) ==
    LET o == IF other = None THEN HvacState(None, None, None, None, None)
             ELSE other[1]
    IN  IF self.digitals # o.digitals /\ other # None THEN "True"
        ELSE IF ambient_differs(self, o) # "False" THEN ambient_differs(self, o)
        ELSE IF outdoor_differs(self, o) # "False" THEN outdoor_differs(self, o)
        ELSE IF discharge_differs(self, o) # "False" THEN discharge_differs(self, o)
        ELSE return_differs(self, o)

\* HvacState.difference_is_reportable(self, other); other is a possibly-None state
difference_is_reportable(self, other) ==
    IF other = None THEN "True"
    ELSE LET o == other[1]
         IN  IF self.digitals # o.digitals THEN "True"
             ELSE IF ambient_differs(self, o) # "False" THEN ambient_differs(self, o)
             ELSE IF outdoor_differs(self, o) # "False" THEN outdoor_differs(self, o)
             ELSE IF discharge_differs(self, o) # "False" THEN discharge_differs(self, o)
             ELSE return_differs(self, o)

HeartbeatSeconds == 3600

\* the condition at main.py:325-327, with Python's short-circuit `or`
is_reportable(self, other, pydt, lastpost) ==
    LET d == difference_is_reportable(self, other)
    IN  IF d # "False" THEN d ELSE was_seconds_ago(pydt, lastpost, HeartbeatSeconds)

-----------------------------------------------------------------------------
\* The detector applied to snapshots built with HvacState(...): every presence
\* and absence of digitals and of each temperature, changes below, at and above
\* each threshold, and clock readings either side of the heartbeat.

Clock(y, mo, d, h, mi, s) == mktime(<<y, mo, d, h, mi, s>>)

DetPostTime == Clock(2024, 1, 12, 20, 51, 40)
DetElapsed == {10, HeartbeatSeconds - 1, HeartbeatSeconds}
DetSelfDigitals == {None, Some(0), Some(1)}
DetOtherDigitals == {None, Some(0)}
DetOtherTemps == {None, Some(20 * PerDegree)}
DetProbeTemps ==
    {None, Some(20 * PerDegree), Some(21 * PerDegree), Some(21 * PerDegree + 1),
     Some(19 * PerDegree - 1)}
DetAmbientTemps ==
    {None, Some(20 * PerDegree), Some(22 * PerDegree), Some(22 * PerDegree + 1),
     Some(18 * PerDegree - 1)}

DetSelves ==
    {HvacState(dg, a, o, di, r) :
        dg \in DetSelfDigitals, a \in DetAmbientTemps, o \in DetProbeTemps,
        di \in DetProbeTemps, r \in DetProbeTemps}
DetOthers ==
    {None} \cup
    {Some(HvacState(dg, a, o, di, r)) :
        dg \in DetOtherDigitals, a \in DetOtherTemps, o \in DetOtherTemps,
        di \in DetOtherTemps, r \in DetOtherTemps}

NothingCompared == [other |-> None, lastpost |-> None]

\* nothing received, written or acknowledged yet in this run
NoResponse == [req |-> "", status |-> 0, date |-> NoDate, rtc_before |-> 0,
               writes_before |-> 0, posts |-> 0]
HistInit == [writes |-> 0, response |-> NoResponse, acked |-> None,
             write_cause |-> None, set_back |-> FALSE,
             eval |-> [matches |-> 0, writes |-> 0, set_back |-> FALSE]]
IsoIdle == [phase |-> "off", t1 |-> 0, t2 |-> 0, id1 |-> <<>>, id2 |-> <<>>]

LoopIdle ==
    /\ pc = "off" /\ rtc = 0 /\ rtc_written = None /\ temp_sensors = {}
    /\ last_sent_state = None /\ last_post_time = None
    /\ last_post_time_matches = 0
    /\ state = HvacState(None, None, None, None, None)
    /\ pydt_now = None /\ reportable = "" /\ compared = NothingCompared
    /\ posted = <<>> /\ answered = 0
    /\ err = "" /\ supervisor = <<>> /\ iter = 0 /\ run = 0
    /\ hist = HistInit

DetIdle == [phase |-> "off", self |-> HvacState(None, None, None, None, None),
            other |-> None, elapsed |-> 0, differs |-> "", decision |-> "",
            body |-> <<>>, body_err |-> ""]
ClkIdle == [phase |-> "off", before |-> 0, date |-> NoDate, err |-> "",
            after |-> 0, written |-> None, ticks |-> 0]

InitDetector ==
    /\ LoopIdle
    /\ clk = ClkIdle
    /\ iso = IsoIdle
    /\ det \in {[phase |-> "input", self |-> s, other |-> o, elapsed |-> e,
                 differs |-> "", decision |-> "", body |-> <<>>, body_err |-> ""] :
                    s \in DetSelves, o \in DetOthers, e \in DetElapsed}

\* state.difference_is_reportable(last_sent_state), the condition around it,
\* and state.as_dict()
DetectorApply ==
    /\ det.phase = "input"
    /\ det' = [det EXCEPT
                 !.phase = "output",
                 !.body = as_dict(det.self),
                 !.body_err = as_dict_raises(det.self),
                 !.differs = difference_is_reportable(det.self, det.other),
                 !.decision =
                     is_reportable(det.self, det.other,
                                   now(DetPostTime + det.elapsed),
                                   IF det.other = None THEN None
                                   ELSE Some(now(DetPostTime)))]
    /\ UNCHANGED <<loopvars, clk, iso>>

NextDetector == DetectorApply

SpecDetector == InitDetector /\ [][NextDetector]_vars

-----------------------------------------------------------------------------
\* set_from_http_date applied to a clock holding any of ClkBefore

ClkTestDate == Clock(2024, 1, 12, 20, 51, 40)
ClkBefore ==
    {Clock(2023, 1, 1, 0, 0, 7), Clock(2023, 12, 31, 23, 59, 59),
     ClkTestDate, ClkTestDate + 1, ClkTestDate + 2, ClkTestDate + 3,
     ClkTestDate - 2, ClkTestDate - 3, ClkTestDate + 60, ClkTestDate - 3600,
     Clock(2024, 1, 12, 12, 0, 59), Clock(2024, 1, 12, 12, 1, 0),
     Clock(2024, 3, 1, 10, 0, 40), Clock(2024, 2, 29, 23, 59, 58)}
ClkDates ==
    {HttpDate(t) : t \in {ClkTestDate, Clock(2024, 1, 12, 12, 0, 59),
                          Clock(2024, 1, 12, 12, 1, 0), Clock(2024, 1, 12, 12, 1, 1),
                          Clock(2024, 3, 1, 0, 0, 0), Clock(2023, 12, 31, 23, 59, 59)}}
    \cup {NoDate, MalformedDate, UnknownMonthDate(ClkTestDate)}
ClkMaxTicks == 2

InitClock ==
    /\ LoopIdle
    /\ det = DetIdle
    /\ iso = IsoIdle
    /\ clk \in {[phase |-> "input", before |-> b, date |-> d, err |-> "",
                 after |-> b, written |-> None, ticks |-> 0] :
                    b \in ClkBefore, d \in ClkDates}

ClockSync ==
    /\ clk.phase = "input"
    /\ LET r == set_from_http_date(clk.before, clk.date)
       IN  clk' = [clk EXCEPT !.phase = "synced", !.err = r.err,
                              !.after = r.rtc, !.written = r.written]
    /\ UNCHANGED <<loopvars, det, iso>>

\* the hardware clock counts on
ClockTick ==
    /\ clk.phase = "synced"
    /\ clk.ticks < ClkMaxTicks
    /\ clk' = [clk EXCEPT !.after = @ + 1, !.ticks = @ + 1]
    /\ UNCHANGED <<loopvars, det, iso>>

NextClock == ClockSync \/ ClockTick

SpecClock == InitClock /\ [][NextClock]_vars

-----------------------------------------------------------------------------
\* pydt_tuple_as_iso applied to two readings of the clock

IsoTimes ==
    {Clock(2023, 12, 31, 23, 59, 59), Clock(2024, 1, 1, 0, 0, 0),
     Clock(2024, 1, 9, 23, 59, 59), Clock(2024, 1, 10, 0, 0, 0),
     Clock(2024, 1, 12, 20, 51, 40), Clock(2024, 1, 12, 20, 51, 41),
     Clock(2024, 1, 12, 21, 0, 0), Clock(2024, 1, 31, 23, 59, 59),
     Clock(2024, 2, 1, 0, 0, 0), Clock(2024, 3, 31, 12, 0, 0),
     Clock(2024, 4, 1, 12, 0, 0), Clock(2025, 1, 1, 0, 0, 0)}

InitIso ==
    /\ LoopIdle
    /\ det = DetIdle
    /\ clk = ClkIdle
    /\ iso \in {[phase |-> "input", t1 |-> a, t2 |-> b, id1 |-> <<>>, id2 |-> <<>>] :
                    a \in IsoTimes, b \in IsoTimes}

\* rtc.pydt_tuple_as_iso(rtc.now()) on each reading
IsoFormat ==
    /\ iso.phase = "input"
    /\ iso' = [iso EXCEPT !.phase = "formatted",
                          !.id1 = iso_string(pydt_tuple_as_iso(now(iso.t1))),
                          !.id2 = iso_string(pydt_tuple_as_iso(now(iso.t2)))]
    /\ UNCHANGED <<loopvars, det, clk>>

NextIso == IsoFormat

SpecIso == InitIso /\ [][NextIso]_vars

-----------------------------------------------------------------------------
\* The program: __main__, sync_setup and async_run (src/main.py)

\* _1W_TEMP_SENSORS: the names that have an address configured
ConfiguredSensors == {"outdoorTempC"}

LoopStart == Clock(2024, 1, 12, 20, 51, 40)
BootClocks == {Clock(2023, 1, 1, 0, 0, 7), LoopStart - 1, LoopStart + 60}
\* what the server's Date header shows, relative to the device clock, when a POST
\* is answered: behind by more and by as much as the poll interval, equal, and
\* ahead by a heartbeat less the poll interval
DateOffsets == {0 - 10, 0 - 6, 0, HeartbeatSeconds - 7}
GetDates == {HttpDate(LoopStart), NoDate}
PostDates(secs) ==
    {HttpDate(secs + off) : off \in DateOffsets}
    \cup {NoDate, MalformedDate, UnknownMonthDate(secs)}
\* the Date header of a response whose status makes the loop raise before it
\* reads the header: one that would move the clock if it were read
RejectedDates(secs) == {HttpDate(secs + HeartbeatSeconds - 7)}
GetStatuses == {200, 201, 503}
PostStatuses == {200, 201, 409}
\* a clock that does not count between two readings
SleepTicks_Frozen == {0}

\* seconds the clock counts between one reading of it and the next: the blinks,
\* uasyncio.sleep(5) and the 0.75 s conversion wait of read_io_state
SleepTicks == {6, 7}
DigitalsRead == {0, 1}
TempsRead == {20 * PerDegree, 21 * PerDegree, 21 * PerDegree + 1}

Init ==
    /\ pc = "setup"
    /\ rtc \in BootClocks
    /\ rtc_written = None
    /\ temp_sensors = {}
    /\ last_sent_state = None
    /\ last_post_time = None
    /\ last_post_time_matches = 0
    /\ state = HvacState(None, None, None, None, None)
    /\ pydt_now = None
    /\ reportable = ""
    /\ compared = NothingCompared
    /\ posted = <<>>
    /\ answered = 0
    /\ err = ""
    /\ supervisor = <<>>
    /\ iter = 0
    /\ run = 0
    /\ hist = HistInit
    /\ det = DetIdle
    /\ clk = ClkIdle
    /\ iso = IsoIdle

\* an exception leaves async_run; the locals stay as they were
Raise(e) ==
    /\ pc' = "failed"
    /\ err' = e

\* sync_setup and sync_scan_1w: the probes found are those scanned that have a
\* configured address
SyncSetup ==
    /\ pc = "setup"
    /\ \E found \in SUBSET ConfiguredSensors : temp_sensors' = found
    /\ pc' = "get"
    /\ UNCHANGED <<rtc, rtc_written, last_sent_state, last_post_time,
                   last_post_time_matches, state, pydt_now, reportable, compared, posted,
                   answered, err, supervisor, iter, run, hist, det, clk, iso>>

\* sync_setup raises (main.py:382-387): print, blink, log, reset
SetupFails ==
    /\ pc = "setup"
    /\ err' = "OneWireError"
    /\ supervisor' = <<"print_exception", "sync_blink(3,400,400)", "log", "soft_reset">>
    /\ pc' = "reset"
    /\ UNCHANGED <<rtc, rtc_written, temp_sensors, last_sent_state, last_post_time,
                   last_post_time_matches, state, pydt_now, reportable, compared, posted,
                   answered, iter, run, hist, det, clk, iso>>

\* whether response.json() can parse the body (main.py:307, 343); it raises
\* ValueError when it cannot
BodyIsJson == BOOLEAN

\* the response as this run remembers it: the request it answers, its status and
\* Date header, and the clock, the count of clock writes and the count of POSTs
\* when it arrived
Received(req, status, http_date) ==
    [req |-> req, status |-> status, date |-> http_date, rtc_before |-> rtc,
     writes_before |-> hist.writes, posts |-> Len(posted)]

\* the run's record after set_from_http_date returned r while handling response
\* resp: a write of the hardware clock is counted and its cause kept, and so is
\* whether a write since last_post_time was assigned put the clock back
AfterSync(resp, r) ==
    [hist EXCEPT !.response = resp,
                 !.set_back = @ \/ (r.written # None /\ r.rtc < rtc),
                 !.writes = IF r.written = None THEN @ ELSE @ + 1,
                 !.write_cause = IF r.written = None THEN @
                                 ELSE Some([req |-> resp.req, status |-> resp.status])]

\* main.py:308: the clock is taken from the GET only when it is answered 200
get_ok_Any(status) == TRUE
get_ok(status) == status = 200

\* main.py:342: a POST counts as accepted when it is answered 200 or 201
post_ok_Any(status) == TRUE
post_ok(status) == status = 200 \/ status = 201

\* async_run up to the loop (main.py:302-316): the body is parsed before the
\* status is looked at
InitialGet ==
    /\ pc = "get"
    /\ \E status \in GetStatuses, http_date \in GetDates, is_json \in BodyIsJson :
          LET resp == Received("GET", status, http_date)
          IN  IF ~is_json
              THEN /\ Raise("ValueError")
                   /\ hist' = [hist EXCEPT !.response = resp]
                   /\ UNCHANGED <<rtc, rtc_written, iter>>
              ELSE IF get_ok(status)
              THEN LET r == set_from_http_date(rtc, http_date)
                   IN  /\ rtc' = r.rtc
                       /\ rtc_written' = IF r.written = None THEN rtc_written ELSE r.written
                       /\ hist' = AfterSync(resp, r)
                       /\ IF r.err = ""
                          THEN /\ pc' = "sample"
                               /\ iter' = 1
                               /\ err' = err
                          ELSE /\ Raise(r.err)
                               /\ iter' = iter
              ELSE /\ Raise("RuntimeError")
                   /\ hist' = [hist EXCEPT !.response = resp]
                   /\ UNCHANGED <<rtc, rtc_written, iter>>
    /\ last_sent_state' = None
    /\ last_post_time' = None
    /\ last_post_time_matches' = 0
    /\ UNCHANGED <<temp_sensors, state, pydt_now, reportable, compared, posted, answered,
                   supervisor, run, det, clk, iso>>

\* read_io_state leaving out the reading of any of the probes found
ReadIoState_SkipsProbes ==
    /\ pc = "sample"
    /\ \E dg \in DigitalsRead, t \in [temp_sensors -> TempsRead],
          seen \in SUBSET temp_sensors :
          LET temp(f) == IF f \in seen THEN Some(t[f]) ELSE None
          IN  state' = HvacState(Some(dg), temp("ambientTempC"), temp("outdoorTempC"),
                                 temp("dischargeTempC"), temp("returnTempC"))
    /\ pc' = "eval"
    /\ UNCHANGED <<rtc, rtc_written, temp_sensors, last_sent_state, last_post_time,
                   last_post_time_matches, pydt_now, reportable, compared, posted, answered,
                   err, supervisor, iter, run, hist, det, clk, iso>>

\* HvacReader.read_io_state: digitals always, one reading per probe found
ReadIoState ==
    /\ pc = "sample"
    /\ \E dg \in DigitalsRead, t \in [temp_sensors -> TempsRead] :
          LET temp(f) == IF f \in temp_sensors THEN Some(t[f]) ELSE None
          IN  state' = HvacState(Some(dg), temp("ambientTempC"), temp("outdoorTempC"),
                                 temp("dischargeTempC"), temp("returnTempC"))
    /\ pc' = "eval"
    /\ UNCHANGED <<rtc, rtc_written, temp_sensors, last_sent_state, last_post_time,
                   last_post_time_matches, pydt_now, reportable, compared, posted, answered,
                   err, supervisor, iter, run, hist, det, clk, iso>>

\* a probe read fails inside read_io_state
ReadIoStateFails ==
    /\ pc = "sample"
    /\ Raise("OneWireError")
    /\ UNCHANGED <<rtc, rtc_written, temp_sensors, last_sent_state, last_post_time,
                   last_post_time_matches, state, pydt_now, reportable, compared, posted,
                   answered, supervisor, iter, run, hist, det, clk, iso>>

\* the collision branch (main.py:331-333): last_post_time_matches is incremented,
\* then `post_time += f".{n}"` adds a str to a tuple, which raises TypeError
allocate_collision(post_time, matches) ==
    [err |-> "TypeError", id |-> <<pydt_tuple_as_iso(post_time), matches + 1>>]

\* session.request("POST", ...) as recorded in posted: the _id of the body (the
\* formatted time and the collision suffix, 0 for none), the clock reading it was
\* made from, the keys of the body besides _id, and the iteration that sent it
post_request(id, t, st) ==
    [id |-> id, at |-> t, keys |-> DOMAIN as_dict(st), iter |-> iter]

\* main.py:325-327 evaluated to false: nothing is sent and the post history
\* stays as it is; the iteration goes on to the sleep of main.py:350-351
NoReport_TouchesHistory ==
    /\ pc' = "sleep"
    /\ last_post_time' = pydt_now'
    /\ UNCHANGED <<last_sent_state, last_post_time_matches, posted, err>>
NoReport ==
    /\ pc' = "sleep"
    /\ UNCHANGED <<last_sent_state, last_post_time, last_post_time_matches, posted, err>>

\* main.py:324-340: read the clock, decide, and when reportable mint the id and
\* send the POST
Evaluate ==
    /\ pc = "eval"
    /\ LET t == now(rtc)
           r == is_reportable(state, last_sent_state, t, last_post_time)
       IN  /\ pydt_now' = Some(t)
           /\ reportable' = r
           /\ compared' = [other |-> last_sent_state, lastpost |-> last_post_time]
           /\ hist' = [hist EXCEPT
                          !.eval = [matches |-> last_post_time_matches,
                                    writes |-> hist.writes,
                                    set_back |-> hist.set_back],
                          !.set_back = IF r = "True" /\ Some(t) # last_post_time
                                       THEN FALSE ELSE @]
           /\ IF r = "TypeError"
              THEN /\ Raise("TypeError")
                   /\ UNCHANGED <<last_sent_state, last_post_time,
                                  last_post_time_matches, posted>>
              ELSE IF r = "False"
              THEN NoReport
              ELSE /\ last_sent_state' = Some(state)
                   /\ IF Some(t) = last_post_time
                      THEN LET a == allocate_collision(t, last_post_time_matches)
                           IN  /\ last_post_time_matches' = last_post_time_matches + 1
                               /\ last_post_time' = last_post_time
                               /\ IF a.err # ""
                                  THEN /\ Raise(a.err)
                                       /\ posted' = posted
                                  ELSE /\ posted' = Append(posted, post_request(a.id, t, state))
                                       /\ pc' = "post"
                                       /\ err' = err
                      ELSE /\ last_post_time' = Some(t)
                           /\ last_post_time_matches' = 0
                           /\ posted' = Append(posted,
                                  post_request(<<pydt_tuple_as_iso(t), 0>>, t, state))
                           /\ pc' = "post"
                           /\ err' = err
    /\ UNCHANGED <<rtc, rtc_written, temp_sensors, state, answered, supervisor,
                   iter, run, det, clk, iso>>

\* the POST is answered (main.py:341-349); the body is parsed only when the
\* status is neither 200 nor 201
PostResponse ==
    /\ pc = "post"
    /\ \E status \in PostStatuses :
          IF ~post_ok(status)
          THEN \E http_date \in RejectedDates(rtc), is_json \in BodyIsJson :
                  /\ Raise(IF is_json THEN "RuntimeError" ELSE "ValueError")
                  /\ hist' = [hist EXCEPT !.response = Received("POST", status, http_date)]
                  /\ UNCHANGED <<rtc, rtc_written, answered>>
          ELSE \E http_date \in PostDates(rtc) :
                  LET resp == Received("POST", status, http_date)
                      r == set_from_http_date(rtc, http_date)
                  IN  /\ answered' = answered + 1
                      /\ rtc' = r.rtc
                      /\ rtc_written' = IF r.written = None THEN rtc_written ELSE r.written
                      /\ hist' = [AfterSync(resp, r) EXCEPT !.acked = Some(state)]
                      /\ IF r.err = ""
                         THEN pc' = "sleep" /\ err' = err
                         ELSE Raise(r.err)
    /\ UNCHANGED <<temp_sensors, last_sent_state, last_post_time,
                   last_post_time_matches, state, pydt_now, reportable, compared, posted,
                   supervisor, iter, run, det, clk, iso>>

\* the request fails in the transport (aiohttp raises)
PostTransportError ==
    /\ pc = "post"
    /\ Raise("OSError")
    /\ UNCHANGED <<rtc, rtc_written, temp_sensors, last_sent_state, last_post_time,
                   last_post_time_matches, state, pydt_now, reportable, compared, posted,
                   answered, supervisor, iter, run, hist, det, clk, iso>>

\* main.py:350-351 and the top of the next iteration: the clock counts on, and
\* the response of the iteration that ends is dropped
Sleep ==
    /\ pc = "sleep"
    /\ iter < MaxIter
    /\ \E d \in SleepTicks : rtc' = rtc + d
    /\ iter' = iter + 1
    /\ reportable' = ""
    /\ hist' = [hist EXCEPT !.response = NoResponse, !.write_cause = None]
    /\ pc' = "sample"
    /\ UNCHANGED <<rtc_written, temp_sensors, last_sent_state, last_post_time,
                   last_post_time_matches, state, pydt_now, compared, posted,
                   answered, err, supervisor, run, det, clk, iso>>

\* the handler writing the log entry before it blinks
Supervisor_LogFirst ==
    /\ pc = "failed"
    /\ supervisor' = <<"print_exception", "log", "sync_blink(3,100,100)", "soft_reset">>
    /\ pc' = "reset"
    /\ UNCHANGED <<rtc, rtc_written, temp_sensors, last_sent_state, last_post_time,
                   last_post_time_matches, state, pydt_now, reportable, compared, posted,
                   answered, err, iter, run, hist, det, clk, iso>>

\* the handler around uasyncio.run (main.py:398-404)
Supervisor ==
    /\ pc = "failed"
    /\ supervisor' = <<"print_exception", "sync_blink(3,100,100)", "log", "soft_reset">>
    /\ pc' = "reset"
    /\ UNCHANGED <<rtc, rtc_written, temp_sensors, last_sent_state, last_post_time,
                   last_post_time_matches, state, pydt_now, reportable, compared, posted,
                   answered, err, iter, run, hist, det, clk, iso>>

\* machine.soft_reset(): the program starts again; the RTC keeps its time
SoftReset ==
    /\ pc = "reset"
    /\ run < MaxRuns
    /\ run' = run + 1
    /\ pc' = "setup"
    /\ temp_sensors' = {}
    /\ last_sent_state' = None
    /\ last_post_time' = None
    /\ last_post_time_matches' = 0
    /\ state' = HvacState(None, None, None, None, None)
    /\ pydt_now' = None
    /\ reportable' = ""
    /\ compared' = NothingCompared
    /\ posted' = <<>>
    /\ answered' = 0
    /\ err' = ""
    /\ supervisor' = <<>>
    /\ iter' = 0
    /\ hist' = HistInit
    /\ UNCHANGED <<rtc, rtc_written, det, clk, iso>>

Next ==
    \/ SyncSetup
    \/ SetupFails
    \/ InitialGet
    \/ ReadIoState
    \/ ReadIoStateFails
    \/ Evaluate
    \/ PostResponse
    \/ PostTransportError
    \/ Sleep
    \/ Supervisor
    \/ SoftReset

Spec == Init /\ [][Next]_vars

\* The except clause of main.py:398-404 is straight-line code without a
\* suspension point, and machine.soft_reset() starts the program again: once
\* an error has left async_run both steps are taken.
SpecFair == Spec /\ WF_vars(Supervisor) /\ WF_vars(SoftReset)

-----------------------------------------------------------------------------
\* Claims about set_from_http_date (SpecClock)

SecondOfDay(p) == p[4] * 3600 + p[5] * 60 + p[6]
ClkParsed == LET g == clk.date.g
             IN  <<g[4], MON[g[3]], g[2], g[5], g[6], g[7], 0, g[8], 0>>
ClkSynced == clk.phase = "synced" /\ clk.err = ""

\* C3: set_from_http_date writes the hardware clock exactly when the clock's year
\* is below 2024 or the parsed time and the clock differ by more than 2 seconds
\* counted as second of day (so not across a minute rollover one second apart,
\* and so for a difference of whole minutes).
C3_ResyncBySecondOfDay ==
    ClkSynced =>
        ((clk.written # None) <=>
            \/ now(clk.before)[1] < 2024
            \/ Abs(SecondOfDay(ClkParsed) - SecondOfDay(now(clk.before))) > 2)

\* C4: after a sync from a well-formed Date header that raised nothing, the clock
\* reads the header's year, month, day, hour and minute and a second within 2 of
\* the header's, whatever the clock held before.
C4_SyncedClockReadsDate ==
    (ClkSynced /\ clk.ticks = 0) =>
        LET n == now(clk.after)
            d == ClkParsed
        IN  /\ n[1] = d[1] /\ n[2] = d[2] /\ n[3] = d[3]
            /\ n[4] = d[4] /\ n[5] = d[5]
            /\ Abs(n[6] - d[6]) <= 2

-----------------------------------------------------------------------------
\* Claims about the detector (SpecDetector)

TempFields == {"ambientTempC", "outdoorTempC", "dischargeTempC", "returnTempC"}
ClaimedThreshold(f) == IF f = "ambientTempC" THEN 2 ELSE 1
DetDone == det.phase = "output"
DetEqualDigitals == det.other # None /\ det.self.digitals = det.other[1].digitals
InBoth(f) == det.other # None /\ det.self[f] # None /\ det.other[1][f] # None
Exceeds(f) ==
    InBoth(f) /\ Abs(det.self[f][1] - det.other[1][f][1]) > ClaimedThreshold(f) * PerDegree
LineOf(f) ==
    IF f = "ambientTempC" THEN ambient_differs(det.self, det.other[1])
    ELSE IF f = "outdoorTempC" THEN outdoor_differs(det.self, det.other[1])
    ELSE IF f = "dischargeTempC" THEN discharge_differs(det.self, det.other[1])
    ELSE return_differs(det.self, det.other[1])

\* C5: the detector is total: for every presence and absence of digitals and of
\* each temperature on either side it returns true or false and never raises, and
\* a temperature absent on either side does not count as a change.
C5_DetectorTotal ==
    DetDone =>
        /\ det.differs \in {"True", "False"}
        /\ (DetEqualDigitals /\ \A f \in TempFields : ~Exceeds(f))
              => det.differs = "False"

\* C7: a temperature line of the detector reports a change exactly when the
\* reading is present in both snapshots and differs by strictly more than the
\* field's threshold (1 degree for outdoor, discharge, return; 2 for ambient);
\* and with equal digitals the detector, when it returns, returns true exactly
\* when some field does so.
C7_TemperatureThresholds ==
    (DetDone /\ det.other # None) =>
        /\ \A f \in TempFields : (LineOf(f) = "True") <=> Exceeds(f)
        /\ (DetEqualDigitals /\ det.differs # "TypeError")
              => ((det.differs = "True") <=> \E f \in TempFields : Exceeds(f))

\* an ambient change of exactly 2 degrees and an outdoor reading with no previous
\* value, and the detector answered false
C7_Witness ==
    /\ DetDone /\ DetEqualDigitals
    /\ InBoth("ambientTempC")
    /\ Abs(det.self.ambientTempC[1] - det.other[1].ambientTempC[1]) = 2 * PerDegree
    /\ det.self.outdoorTempC # None /\ det.other[1].outdoorTempC = None
    /\ det.differs = "False"

-----------------------------------------------------------------------------
\* Claims about the reporting loop (Spec)

Evaluated == reportable # ""
PostedThisIter == \E i \in DOMAIN posted : posted[i].iter = iter
LastPosted == posted[Len(posted)]
IdBefore(p, q) ==
    \/ mktime(p.at) < mktime(q.at)
    \/ mktime(p.at) = mktime(q.at) /\ p.id[2] < q.id[2]
\* the reading of this iteration equals the last post time the condition saw
SameSecondAgain == Evaluated /\ reportable = "True" /\ compared.lastpost = pydt_now
ElapsedSincePost == mktime(pydt_now[1]) - mktime(compared.lastpost[1])

\* C1: when a reportable sample is taken at the clock reading T of the report
\* before it, the loop does not fail: the collision counter is 1 and a second
\* POST goes out with _id format_iso(T) followed by ".1", after the first with
\* _id format_iso(T); a report at any other reading carries no suffix and sets
\* the counter to 0.
C1_CollisionGetsSuffix ==
    /\ SameSecondAgain =>
          /\ last_post_time_matches = 1
          /\ Len(posted) >= 2
          /\ PostedThisIter
          /\ LastPosted.id = <<pydt_tuple_as_iso(pydt_now[1]), 1>>
          /\ posted[Len(posted) - 1].id = <<pydt_tuple_as_iso(pydt_now[1]), 0>>
    /\ (Evaluated /\ reportable = "True" /\ compared.lastpost # pydt_now) =>
          /\ last_post_time_matches = 0
          /\ PostedThisIter
          /\ LastPosted.id = <<pydt_tuple_as_iso(pydt_now[1]), 0>>

\* C2: the _id values POSTed in one run are strictly increasing in the order of
\* (base timestamp, collision suffix), whatever the samples, the clock readings
\* and the resyncs from Date headers; no two are equal.
C2_IdsStrictlyIncreasing ==
    \A i, j \in DOMAIN posted : i < j => IdBefore(posted[i], posted[j])

\* C6: when the sample and the last sent snapshot have equal digitals, every
\* temperature present in both is within its threshold and the clock shows less
\* than 3600 seconds since the last post time, the condition of the loop is
\* false and the iteration issues no POST.
C6_QuietIsNotReportable ==
    (/\ Evaluated
     /\ compared.other # None
     /\ state.digitals = compared.other[1].digitals
     /\ \A f \in TempFields :
           (state[f] # None /\ compared.other[1][f] # None) =>
               Abs(state[f][1] - compared.other[1][f][1])
                   <= ClaimedThreshold(f) * PerDegree
     /\ ElapsedSincePost < 3600)
        => (reportable = "False" /\ ~PostedThisIter /\ pc # "post")

\* an outdoor reading exactly one degree from the last sent one, 6 or 7 seconds
\* after the last report: not reported
C6_Witness ==
    /\ Evaluated /\ compared.other # None
    /\ state.digitals = compared.other[1].digitals
    /\ state.outdoorTempC # None /\ compared.other[1].outdoorTempC # None
    /\ Abs(state.outdoorTempC[1] - compared.other[1].outdoorTempC[1]) = PerDegree
    /\ ElapsedSincePost \in {6, 7}
    /\ reportable = "False" /\ pc = "sleep" /\ Len(posted) = 1

\* C8: when the digitals of the sample differ from those of the last sent
\* snapshot the condition is true and the iteration POSTs a report.
C8_DigitalsChangeIsPosted ==
    (Evaluated /\ compared.other # None
        /\ state.digitals # compared.other[1].digitals)
        => (reportable = "True" /\ PostedThisIter)

\* C9: with no previously sent snapshot the condition is true without the
\* heartbeat being evaluated, and the first sample of every run, restarts
\* included, is compared against nothing and is POSTed.
C9_ColdStartReports ==
    /\ (Evaluated /\ compared.other = None) =>
          /\ reportable = "True"
          /\ PostedThisIter
          /\ LastPosted.at = pydt_now[1]
          /\ LastPosted.id = <<pydt_tuple_as_iso(pydt_now[1]), 0>>
    /\ (Evaluated /\ iter = 1) => (compared.other = None /\ compared.lastpost = None)
    /\ iter >= 2 => (Len(posted) >= 1 /\ posted[1].iter = 1)

\* the first sample of the run after a restart has been POSTed
C9_Witness ==
    /\ run = 1 /\ iter = 1 /\ Evaluated /\ compared.other = None
    /\ Len(posted) = 1 /\ pc = "post"

\* C10: with the sample identical to the last sent snapshot, the loop reports
\* exactly when the clock shows at least 3600 seconds since the last post time
\* (so at 3600 and not at 3599), and then the POST goes out.
C10_HeartbeatBoundary ==
    (Evaluated /\ compared.other = Some(state)) =>
        /\ (reportable = "True") <=> (ElapsedSincePost >= 3600)
        /\ (reportable = "False") <=> (ElapsedSincePost < 3600)
        /\ reportable = "True" => (PostedThisIter /\ LastPosted.at = pydt_now[1])

\* an unchanged sample reported at exactly 3600 seconds
C10_Witness ==
    /\ Evaluated /\ compared.other = Some(state)
    /\ ElapsedSincePost = 3600 /\ reportable = "True" /\ pc = "post"

\* ---- error paths of the run ----

Stopped == pc \in {"failed", "reset"}
\* the handler of main.py:398-404 has run to its soft reset
Restarting == pc = "reset" /\ supervisor # <<>> /\ supervisor[Len(supervisor)] = "soft_reset"
GetRejected == hist.response.req = "GET" /\ hist.response.status # 200
PostRejected ==
    hist.response.req = "POST" /\ hist.response.status \notin {200, 201}
ClockUntouchedByResponse ==
    rtc = hist.response.rtc_before /\ hist.writes = hist.response.writes_before

\* C11: when the initial GET is answered with a status other than 200, the run
\* takes no sample, writes the clock not once and sends no POST: it stops with
\* an error (RuntimeError, or ValueError when the body is not JSON), and the
\* supervisor's handler ends in the restart.
C11_RejectedGetEndsRun ==
    GetRejected =>
        /\ Stopped /\ err \in {"RuntimeError", "ValueError"}
        /\ iter = 0
        /\ state = HvacState(None, None, None, None, None)
        /\ reportable = "" /\ pydt_now = None
        /\ posted = <<>> /\ answered = 0
        /\ hist.writes = 0 /\ ClockUntouchedByResponse
        /\ pc = "reset" => Restarting

\* the GET was answered 503 and the supervisor has called for the restart
C11_Witness ==
    GetRejected /\ hist.response.status = 503 /\ hist.response.date.present /\ Restarting

\* C12: when a POST is answered with a status other than 200 or 201 the run
\* stops: no later iteration samples, no POST follows the rejected one (it is
\* not sent again), and the clock is not set from that response.
C12_RejectedPostEndsRun ==
    PostRejected =>
        /\ Stopped /\ err \in {"RuntimeError", "ValueError"}
        /\ Len(posted) = hist.response.posts
        /\ LastPosted.iter = iter
        /\ reportable = "True"
        /\ answered < Len(posted)
        /\ ClockUntouchedByResponse

\* a POST answered 409 whose Date header would have moved the clock, after the
\* supervisor has run
C12_Witness ==
    /\ PostRejected /\ hist.response.status = 409 /\ Restarting
    /\ set_from_http_date(rtc, hist.response.date).written # None

\* the header is there and set_from_http_date cannot parse it: the pattern of
\* hardware_rp2.py:92 does not match, or the month is not a key of MON
Unparsable(d) == d.present /\ (~d.match \/ d.g[3] \notin DOMAIN MON)
ResponseAccepted ==
    \/ hist.response.req = "GET" /\ hist.response.status = 200
    \/ hist.response.req = "POST" /\ hist.response.status \in {200, 201}

\* C13: when the Date header handed to set_from_http_date is unparsable, the call
\* raises (RuntimeError on a pattern mismatch, KeyError on an unknown month), the
\* hardware clock is as it was before the call, and the error leaves the loop:
\* the run stops and the supervisor's handler takes it to the restart.
C13_UnparsableDateRaises ==
    (ResponseAccepted /\ Unparsable(hist.response.date)) =>
        /\ Stopped
        /\ err = IF hist.response.date.match THEN "KeyError" ELSE "RuntimeError"
        /\ ClockUntouchedByResponse
        /\ LastPosted.iter = iter /\ Len(posted) = hist.response.posts
        /\ pc = "reset" => Restarting

\* an accepted POST carried the month "Xyz", and the supervisor has run
C13_Witness ==
    /\ ResponseAccepted /\ hist.response.req = "POST" /\ Restarting
    /\ hist.response.date.match /\ hist.response.date.g[3] = "Xyz"
    /\ err = "KeyError"

\* an accepted POST carried a Date that does not match the pattern
C13_WitnessMismatch ==
    /\ ResponseAccepted /\ hist.response.req = "POST" /\ Restarting
    /\ ~hist.response.date.match /\ hist.response.date.present /\ err = "RuntimeError"

\* ---- the supervisor ----

\* the handler did a before b
Before(a, b) ==
    \E i, j \in DOMAIN supervisor : i < j /\ supervisor[i] = a /\ supervisor[j] = b
\* an error left async_run (a failure of sync_setup never reaches the loop)
LoopError == Stopped /\ (iter >= 1 \/ hist.response.req = "GET")
FailureBlink == "sync_blink(3,100,100)"

\* C14 as stated: after an error of the loop the handler has written the log
\* entry, then blinked, then called the restart.
C14_LogThenBlinkThenRestart ==
    (LoopError /\ pc = "reset") =>
        /\ Before("log", FailureBlink)
        /\ Before(FailureBlink, "soft_reset")

\* C14 with the order of the code: after every error of the loop the handler
\* emits the failure blink pattern, then writes the timestamped log entry, then
\* calls the restart, and nothing follows the restart call; a run after a restart
\* enters its loop only through its own GET answered 200; and every stop of the
\* loop leads to the handler's restart call, which starts the program again.
C14_BlinkThenLogThenRestart ==
    /\ []((LoopError /\ pc = "reset") =>
            /\ Before(FailureBlink, "log")
            /\ Before("log", "soft_reset")
            /\ Restarting)
    /\ []((iter = 1 /\ pc \in {"sample", "eval"}) =>
            (hist.response.req = "GET" /\ hist.response.status = 200
             /\ hist.response.date.present /\ hist.writes <= 1))
    /\ []((pc = "failed") => LoopError)
    /\ ((pc = "failed") ~> (LoopError /\ Restarting))
    /\ ((pc = "reset" /\ run < MaxRuns) ~> (pc = "setup" /\ iter = 0 /\ posted = <<>>))

\* a run that started by restart after an error of the loop has synced its clock
\* from its own GET and is in its first iteration
C14_Witness ==
    /\ run = 1 /\ iter = 1 /\ pc = "eval"
    /\ hist.response.req = "GET" /\ hist.response.status = 200

\* the handler has run after a rejected POST
C14_WitnessHandled == LoopError /\ Restarting /\ PostRejected /\ run = 0

\* ---- the record of a snapshot ----

DictKeys == DOMAIN det.body
DigitalKeys == {"digitals"} \cup DOMAIN FlagBits

\* C15: the record made by as_dict holds each of the four temperatures, with the
\* sampled value, exactly when that temperature was sampled, holds digitals and
\* the nine flags whenever digitals was sampled, and as_dict raises when
\* digitals was not sampled.
C15_DictHoldsWhatWasSampled ==
    DetDone =>
        /\ \A f \in TempFields :
              /\ (f \in DictKeys) <=> (det.self[f] # None)
              /\ f \in DictKeys => det.body[f] = det.self[f][1]
        /\ det.self.digitals # None =>
              /\ DigitalKeys \subseteq DictKeys
              /\ det.body["digitals"] = det.self.digitals[1]
        /\ det.self.digitals = None => det.body_err # ""

\* the three probe temperatures are in the record exactly when sampled, and
\* digitals with the nine flags whenever digitals was sampled
C15_ProbesAndDigitalsHeld ==
    DetDone =>
        /\ \A f \in TempFields \ {"ambientTempC"} :
              /\ (f \in DictKeys) <=> (det.self[f] # None)
              /\ f \in DictKeys => det.body[f] = det.self[f][1]
        /\ det.self.digitals # None =>
              /\ DigitalKeys \subseteq DictKeys
              /\ det.body["digitals"] = det.self.digitals[1]

\* a sampled ambient temperature is missing from the record
C15_AmbientDropped ==
    DetDone /\ det.self.ambientTempC # None /\ det.self.digitals # None
    /\ "ambientTempC" \notin DictKeys

\* unsampled digitals give a record of the temperatures alone and no error
C15_DigitalsOmittedSilently ==
    DetDone /\ det.self.digitals = None /\ det.body_err = ""
    /\ DictKeys = {"outdoorTempC"} /\ det.self.ambientTempC = None

\* ---- responses without a Date header ----

AcceptedPostWithoutDate ==
    /\ hist.response.req = "POST" /\ hist.response.status \in {200, 201}
    /\ ~hist.response.date.present

\* C16: a POST answered 200 or 201 without a Date header is a success: the
\* clock stays as it is and the run goes on to the sleep and the next sample
\* instead of stopping with an error.
C16_MissingDateIsSuccess ==
    AcceptedPostWithoutDate =>
        /\ ~Stopped /\ err = ""
        /\ ClockUntouchedByResponse

\* the accepted POST without a Date header stopped the run with TypeError
C16_MissingDateStopsRun ==
    AcceptedPostWithoutDate /\ Restarting /\ err = "TypeError" /\ ClockUntouchedByResponse

\* ---- the order of report ids ----

\* string order (a < b on two Python strings): code point order at the first difference, a
\* proper prefix first
str_less(a, b) ==
    \/ \E i \in 1..Len(a) :
          /\ i <= Len(b)
          /\ a[i] < b[i]
          /\ \A j \in 1..(i - 1) : a[j] = b[j]
    \/ /\ Len(a) < Len(b)
       /\ \A j \in 1..Len(a) : a[j] = b[j]

IsoDone == iso.phase = "formatted"
SameMonth == now(iso.t1)[1] = now(iso.t2)[1] /\ now(iso.t1)[2] = now(iso.t2)[2]

\* C17: for two clock readings t1 earlier than t2, in one day or in different
\* months or years, the id formatted from t1 is less than the id formatted from
\* t2 in string order.
C17_IdsOrderedAsTimes ==
    (IsoDone /\ iso.t1 < iso.t2) => str_less(iso.id1, iso.id2)

\* within one month of one year the ids are ordered as the readings are
C17_IdsOrderedWithinMonth ==
    (IsoDone /\ SameMonth) => ((iso.t1 < iso.t2) <=> str_less(iso.id1, iso.id2))

\* the reading of 31 January formats to a greater id than the reading of
\* 1 February one second later
C17_JanAfterFeb ==
    /\ IsoDone /\ iso.t2 = iso.t1 + 1
    /\ now(iso.t1)[2] = 1 /\ now(iso.t2)[2] = 2
    /\ str_less(iso.id2, iso.id1)

\* ---- the tuple written to the hardware clock ----

ClkWrote == ClkSynced /\ clk.written # None
\* the weekday (Monday = 0) of the date in a hardware-layout tuple
WeekdayOf(u) == Weekday(mktime(<<u[1], u[2], u[3], 0, 0, 0>>) \div SecPerDay)
\* a time tuple taken to the hardware layout and back
RoundTrip(p) == pydttuple_from_upyrp2040tuple(upyrp2040tuple_from_pydttuple(p))
SixFieldsKept(p) == \A i \in 1..6 : RoundTrip(p)[i] = p[i]

\* C18: the tuple set_from_http_date writes to the hardware clock has, in its
\* day-of-week position, the integer weekday of the date (4 for Friday 12 Jan
\* 2024), and a time tuple taken to the hardware layout and back keeps year,
\* month, day, hour, minute and second.
C18_WrittenTupleHasWeekday ==
    ClkWrote =>
        /\ SixFieldsKept(ClkParsed)
        /\ clk.written[1][4] \notin STRING
        /\ clk.written[1][4] = WeekdayOf(clk.written[1])

\* the round trip keeps the six fields, and the clock read right after the
\* write shows the date and time of the header
C18_RoundTripKeepsFields ==
    ClkWrote =>
        /\ SixFieldsKept(ClkParsed)
        /\ clk.ticks = 0 =>
              \A i \in 1..6 : now(clk.after)[i] = ClkParsed[i]

\* synced from "Fri, 12 Jan 2024 20:51:40 GMT": the tuple written has the zone
\* string where the weekday belongs, and the clock computes Friday itself
C18_ZoneInWeekdaySlot ==
    /\ ClkWrote /\ clk.ticks = 0
    /\ clk.date = HttpDate(ClkTestDate) /\ clk.date.g[1] = "Fri"
    /\ clk.written[1] = <<2024, 1, 12, "GMT", 20, 51, 40, 0>>
    /\ WeekdayOf(clk.written[1]) = 4
    /\ RtcRead(clk.after)[4] = 4

\* ---- the last-sent snapshot ----

\* C19: in every state of the loop the last-sent snapshot is the snapshot of the
\* most recent POST answered 200 or 201, and absent before the first such
\* answer: never that of a POST still in flight or rejected.
C19_LastSentIsAcknowledged ==
    last_sent_state = hist.acked

\* between POSTs (sampling, deciding, sleeping) the last-sent snapshot is the
\* acknowledged one
C19_LastSentBetweenPosts ==
    pc \in {"sample", "eval", "sleep"} => last_sent_state = hist.acked

\* a second POST is in flight and the last-sent snapshot is already its
\* snapshot, not the acknowledged one
C19_InFlightIsLastSent ==
    /\ pc = "post" /\ Len(posted) = 2 /\ answered = 1
    /\ last_sent_state = Some(state) /\ hist.acked # None
    /\ hist.acked # last_sent_state

\* a POST was rejected and its snapshot stays the last-sent one
C19_RejectedIsLastSent ==
    /\ PostRejected /\ Stopped /\ answered = 0
    /\ last_sent_state = Some(state) /\ hist.acked = None

\* ---- iterations that do not report ----

QuietIteration == Evaluated /\ reportable = "False"
AcceptedCauses ==
    {[req |-> "GET", status |-> 200], [req |-> "POST", status |-> 200],
     [req |-> "POST", status |-> 201]}

\* C20: an iteration whose sample is not reportable sends no request and leaves
\* the last-sent snapshot, the last post time, the collision counter and the
\* setting of the hardware clock as the condition found them; and the hardware
\* clock is written only by set_from_http_date while a GET answered 200 or a
\* POST answered 200 or 201 is handled.
C20_QuietIterationChangesNothing ==
    /\ QuietIteration =>
          /\ pc = "sleep" /\ err = ""
          /\ ~PostedThisIter /\ Len(posted) = answered
          /\ hist.response.req # "POST"
          /\ last_sent_state = compared.other
          /\ last_post_time = compared.lastpost
          /\ last_post_time_matches = hist.eval.matches
          /\ hist.writes = hist.eval.writes
    /\ hist.write_cause # None => hist.write_cause[1] \in AcceptedCauses
    /\ hist.writes <= (IF iter >= 1 THEN 1 ELSE 0) + answered
    /\ rtc_written = None => hist.writes = 0

\* the second iteration found nothing to report, after the clock had been set
\* in this run
C20_Witness ==
    /\ QuietIteration /\ iter = 2 /\ pc = "sleep"
    /\ compared.other # None /\ hist.writes >= 1 /\ Len(posted) = 1

\* ---- the snapshots of one run ----

\* the temperature fields a snapshot holds
Present(st) == {f \in TempFields : st[f] # None}
Sampled == state.digitals # None

\* C21: every snapshot read_io_state makes in a run has digitals and exactly the
\* temperatures of the probes found at setup, so all snapshots of the run hold
\* the same temperature fields, and the detector in the loop never gets a
\* temperature that the last-sent snapshot has and the current one lacks.
C21_SnapshotsShareFields ==
    /\ pc \in {"eval", "post", "sleep"} => Sampled
    /\ Sampled => Present(state) = temp_sensors
    /\ last_sent_state # None =>
          /\ last_sent_state[1].digitals # None
          /\ Present(last_sent_state[1]) = temp_sensors
    /\ (Evaluated /\ compared.other # None) =>
          /\ compared.other[1].digitals # None
          /\ Present(compared.other[1]) = Present(state)
          /\ reportable \in {"True", "False"}

\* the second sample of a run with the outdoor probe found is compared with the
\* first, which was sent, and both hold the outdoor temperature
C21_Witness ==
    /\ iter = 2 /\ Evaluated /\ compared.other # None
    /\ temp_sensors = {"outdoorTempC"}
    /\ Present(state) = {"outdoorTempC"}
    /\ state.outdoorTempC # compared.other[1].outdoorTempC

\* ---- readings that repeat ----

ReportReading == Evaluated /\ reportable = "True" /\ compared.lastpost # None
CollisionBranchTaken == Evaluated /\ last_post_time_matches # hist.eval.matches

\* C22: the clock reading taken for a report never equals the stored last post
\* time, so no two reports of a run share a base timestamp and the collision
\* branch is never taken, whatever the Date headers of the responses set the
\* clock to.
C22_ReadingNeverRepeats ==
    /\ ~SameSecondAgain
    /\ ~CollisionBranchTaken
    /\ last_post_time_matches = 0

\* C22 without the resyncs that put the clock back: as long as no response Date
\* header has set the clock back since the last post time was stored, the
\* reading taken in a later iteration is later than the last post time by at
\* least the wait of one iteration, and the collision branch is not taken; the
\* branch is taken only after such a resync.
C22_NoRepeatUnlessSetBack ==
    /\ (Evaluated /\ compared.lastpost # None /\ ~hist.eval.set_back) =>
          /\ ElapsedSincePost >= 6
          /\ ~SameSecondAgain
          /\ ~CollisionBranchTaken
    /\ (SameSecondAgain \/ CollisionBranchTaken) =>
          (hist.eval.set_back /\ rtc_written # None)
    /\ SameSecondAgain <=> CollisionBranchTaken

\* a second report is made from a later reading after a response whose Date
\* header set the clock ahead
C22_Witness ==
    /\ ReportReading /\ ~hist.eval.set_back /\ iter = 2 /\ pc = "post"
    /\ hist.eval.writes >= 1 /\ ElapsedSincePost >= HeartbeatSeconds - 1
    /\ Len(posted) = 2 /\ posted[1].at # posted[2].at

\* the response to the first report set the clock back by the wait of one
\* iteration, and the next report's reading is the last post time again
C22_SetBackRepeats ==
    /\ SameSecondAgain /\ CollisionBranchTaken /\ hist.eval.set_back
    /\ iter = 2 /\ last_post_time_matches = 1

====
